---- MODULE Spec2Model ----
(***************************************************************************)
(* Pancake flipping sort (src/main.py): Uniform Cost Search and A* over    *)
(* the stacks reachable by prefix reversals, run back to back by main().   *)
(* A stack is a sequence of integers, top of the stack first.  A node is a *)
(* record with the fields of UcsNode / AStarNode; a search object is a     *)
(* record with the fields of Ucs / Astar.                                  *)
(***************************************************************************)
EXTENDS Integers, Sequences, FiniteSets, TLC

\* Largest stack size the driver is given.
MaxN == 4

\* Largest stack size handed to the search classes without validation.
MaxCoreLen == 3

VARIABLES
    starting_stack,   \* main(): the stack both searches are built from
    pc,               \* position of main() / of the running start_search()
    ucs,              \* the Ucs object (root, expanded, traversed, goal_stack, nodes_expanded)
    a_star,           \* the Astar object (same fields)
    current_node,     \* local of the running start_search(): node being expanded
    i,                \* local of the running start_search(): next flip size of the for loop
    ucs_return,       \* <<>> until Ucs.start_search() returns, then <<node>>
    astar_return,     \* <<>> until Astar.start_search() returns, then <<node>>
    last_merge        \* observation: which branch the last candidate took

vars == <<starting_stack, pc, ucs, a_star, current_node, i, ucs_return,
          astar_return, last_merge>>

\* Python's None for a local that is not bound yet.
NoNode == <<>>

-----------------------------------------------------------------------------
(* Python list helpers *)

Min(S) == CHOOSE x \in S : \A y \in S : x <= y

Range(s) == {s[k] : k \in 1..Len(s)}

\* s[::-1]
RECURSIVE Reverse(_)
Reverse(s) == IF s = <<>> THEN <<>> ELSE Append(Reverse(Tail(s)), Head(s))

\* sorted(list of ints): ascending, duplicates kept
RECURSIVE SortedInts(_, _)
SortedInts(s, vals) ==
    IF vals = {} THEN <<>>
    ELSE LET m == Min(vals)
         IN SelectSeq(s, LAMBDA x : x = m) \o SortedInts(s, vals \ {m})

sorted(s) == SortedInts(s, Range(s))

\* Mutant of __eq__: the node's stack is compared with itself.
NodeEqSelf(a, b) == a.stack = a.stack

\* UcsNode.__eq__: nodes are equal when their stacks are equal
NodeEq(a, b) == a.stack = b.stack

\* node in list (list.__contains__ through __eq__)
In(node, list) == \E k \in 1..Len(list) : NodeEq(list[k], node)

\* list.remove(node): drops the first element equal to node
Remove(list, node) ==
    LET hits == {k \in 1..Len(list) : NodeEq(list[k], node)}
    IN IF hits = {} THEN list
       ELSE LET first == Min(hits)
            IN SubSeq(list, 1, first - 1) \o SubSeq(list, first + 1, Len(list))

-----------------------------------------------------------------------------
(* Nodes *)

UcsNode(stack, backwards_cost, path) ==
    [stack |-> stack, backwards_cost |-> backwards_cost, path |-> path]

AStarNode(stack, backwards_cost, path, heuristic_value) ==
    [stack |-> stack, backwards_cost |-> backwards_cost, path |-> path,
     heuristic_cost |-> heuristic_value,
     total_cost |-> heuristic_value + backwards_cost]

-----------------------------------------------------------------------------
(* Ucs / Astar methods *)

\* Mutant of flip: the prefix is not reversed.
flip_no_reverse(stack, n) ==
    SubSeq(stack, 1, n) \o SubSeq(stack, n + 1, Len(stack))

\* Mutant of flip: the slice ends one element early (stack[:n-1]).
flip_one_short(stack, n) ==
    Reverse(SubSeq(stack, 1, n - 1)) \o SubSeq(stack, n, Len(stack))

\* Ucs.flip: stack[:n][::-1] + stack[n:]
flip(stack, n) ==
    Reverse(SubSeq(stack, 1, n)) \o SubSeq(stack, n + 1, Len(stack))

\* Ucs.get_node_by_stack: first node of the list with that stack, else 0
get_node_by_stack(expanded, stack) ==
    LET hits == {k \in 1..Len(expanded) : expanded[k].stack = stack}
    IN IF hits = {} THEN 0 ELSE expanded[Min(hits)]

\* Mutant of the heuristic loop: it stops one pair early (i < len(stack) - 2).
RECURSIVE HeuristicLoopSkipsLastPair(_, _, _)
HeuristicLoopSkipsLastPair(stack, idx, heuristic_value) ==
    IF idx < Len(stack) - 2
    THEN LET current_pancake == stack[idx + 1]
             current_plus_one == current_pancake - 1
             current_minus_one == current_pancake + 1
         IN IF stack[idx + 2] # current_minus_one /\ stack[idx + 2] # current_plus_one
            THEN HeuristicLoopSkipsLastPair(stack, idx + 1, heuristic_value + 1)
            ELSE HeuristicLoopSkipsLastPair(stack, idx + 1, heuristic_value)
    ELSE heuristic_value

\* Mutant of the heuristic loop: only the pancake one above counts as adjacent.
RECURSIVE HeuristicLoopAscendingOnly(_, _, _)
HeuristicLoopAscendingOnly(stack, idx, heuristic_value) ==
    IF idx < Len(stack) - 1
    THEN LET current_pancake == stack[idx + 1]
             current_minus_one == current_pancake + 1
         IN IF stack[idx + 2] # current_minus_one
            THEN HeuristicLoopAscendingOnly(stack, idx + 1, heuristic_value + 1)
            ELSE HeuristicLoopAscendingOnly(stack, idx + 1, heuristic_value)
    ELSE heuristic_value

\* Mutant of the heuristic loop: "or" in place of "and", so every pair counts.
RECURSIVE HeuristicLoopOrForAnd(_, _, _)
HeuristicLoopOrForAnd(stack, idx, heuristic_value) ==
    IF idx < Len(stack) - 1
    THEN LET current_pancake == stack[idx + 1]
             current_plus_one == current_pancake - 1
             current_minus_one == current_pancake + 1
         IN IF stack[idx + 2] # current_minus_one \/ stack[idx + 2] # current_plus_one
            THEN HeuristicLoopOrForAnd(stack, idx + 1, heuristic_value + 1)
            ELSE HeuristicLoopOrForAnd(stack, idx + 1, heuristic_value)
    ELSE heuristic_value

\* The while loop of calculate_heuristic_value; idx is the 0-based i of the code.
RECURSIVE HeuristicLoop(_, _, _)
HeuristicLoop(stack, idx, heuristic_value) ==
    IF idx < Len(stack) - 1
    THEN LET current_pancake == stack[idx + 1]
             current_plus_one == current_pancake - 1
             current_minus_one == current_pancake + 1
         IN IF stack[idx + 2] # current_minus_one /\ stack[idx + 2] # current_plus_one
            THEN HeuristicLoop(stack, idx + 1, heuristic_value + 1)
            ELSE HeuristicLoop(stack, idx + 1, heuristic_value)
    ELSE heuristic_value

\* Astar.calculate_heuristic_value
calculate_heuristic_value(stack) == HeuristicLoop(stack, 0, 0)

\* list.sort(key=...): stable, ascending by key.  key[k] is the key of
\* list[k]; keys are the key values still to be placed.
RECURSIVE SortBuckets(_, _, _)
SortBuckets(list, key, keys) ==
    IF keys = {} THEN <<>>
    ELSE LET m == Min(keys)
             idx == SelectSeq([k \in 1..Len(list) |-> k], LAMBDA k : key[k] = m)
         IN [j \in 1..Len(idx) |-> list[idx[j]]]
              \o SortBuckets(list, key, keys \ {m})

SortByKey(list, key) == SortBuckets(list, key, Range(key))

\* Mutant of the UCS sort: descending by cost (reverse=True).
UcsSortDescending(expanded) ==
    SortByKey(expanded, [k \in 1..Len(expanded) |-> 0 - expanded[k].backwards_cost])

\* Ucs.get_lowest_cost_node, the in-place sort: self.expanded afterwards
UcsSort(expanded) ==
    SortByKey(expanded, [k \in 1..Len(expanded) |-> expanded[k].backwards_cost])

\* Mutant of the A* sort: by heuristic alone.
AstarSortByHeuristic(expanded) ==
    SortByKey(expanded, [k \in 1..Len(expanded) |-> expanded[k].heuristic_cost])

\* Mutant of the A* sort: descending by total cost.
AstarSortDescending(expanded) ==
    SortByKey(expanded, [k \in 1..Len(expanded) |-> 0 - expanded[k].total_cost])

\* Mutant of the A* sort: the override is missing, Ucs's sort by
\* backwards_cost is inherited.
AstarSortInherited(expanded) ==
    SortByKey(expanded, [k \in 1..Len(expanded) |-> expanded[k].backwards_cost])

\* Astar.get_lowest_cost_node, the in-place sort: self.expanded afterwards
AstarSort(expanded) ==
    SortByKey(expanded, [k \in 1..Len(expanded) |-> expanded[k].total_cost])

\* Mutant of Ucs.__init__: the counter starts at 0.
UcsNewCountFromZero(stack) ==
    [root |-> UcsNode(stack, 0, <<stack>>),
     expanded |-> <<>>,
     traversed |-> <<>>,
     goal_stack |-> sorted(stack),
     nodes_expanded |-> 0]

\* Ucs.__init__
UcsNew(stack) ==
    [root |-> UcsNode(stack, 0, <<stack>>),
     expanded |-> <<>>,
     traversed |-> <<>>,
     goal_stack |-> sorted(stack),
     nodes_expanded |-> 1]

\* Astar.__init__: Ucs.__init__, then the root is rebuilt as an AStarNode
AstarNew(stack) ==
    [UcsNew(stack) EXCEPT
        !.root = AStarNode(stack, 0, <<stack>>, calculate_heuristic_value(stack))]

-----------------------------------------------------------------------------
(* One pass of the for loop of start_search: candidate i of current_node *)

\* Mutant of the UCS candidate: the path gets the parent's stack again.
UcsNewNodeStalePath(node, n) ==
    LET stack == flip(node.stack, n)
        path == Append(node.path, node.stack)
    IN UcsNode(stack, node.backwards_cost + 1, path)

\* Ucs.start_search, lines 96-99: the candidate node for flip size n
UcsNewNode(node, n) ==
    LET stack == flip(node.stack, n)
        path == Append(node.path, stack)
    IN UcsNode(stack, node.backwards_cost + 1, path)

\* Astar.start_search, lines 168-173: the candidate node for flip size n
AstarNewNode(node, n) ==
    LET stack == flip(node.stack, n)
        path == Append(node.path, stack)
        heuristic_value == calculate_heuristic_value(stack)
    IN AStarNode(stack, node.backwards_cost + 1, path, heuristic_value)

\* Mutant of the UCS merge: only inserted or replacing candidates are counted.
UcsCandidateCountsInserted(self, new_node) ==
    IF ~In(new_node, self.expanded) /\ ~In(new_node, self.traversed)
    THEN [self EXCEPT !.nodes_expanded = @ + 1,
                      !.expanded = Append(@, new_node)]
    ELSE IF In(new_node, self.expanded)
         THEN LET old_node == get_node_by_stack(self.expanded, new_node.stack)
              IN IF new_node.backwards_cost < old_node.backwards_cost
                 THEN [self EXCEPT !.nodes_expanded = @ + 1,
                                   !.expanded = Append(Remove(@, old_node), new_node)]
                 ELSE self
         ELSE self

\* Mutant of the UCS merge: the closed list is not consulted.
UcsCandidateIgnoresClosed(self, new_node) ==
    LET counted == [self EXCEPT !.nodes_expanded = @ + 1]
    IN IF ~In(new_node, self.expanded)
       THEN [counted EXCEPT !.expanded = Append(@, new_node)]
       ELSE LET old_node == get_node_by_stack(self.expanded, new_node.stack)
            IN IF new_node.backwards_cost < old_node.backwards_cost
               THEN [counted EXCEPT
                        !.expanded = Append(Remove(@, old_node), new_node)]
               ELSE counted

\* Ucs.start_search, lines 95 and 103-109: count the candidate, merge it
UcsCandidate(self, new_node) ==
    LET counted == [self EXCEPT !.nodes_expanded = @ + 1]
    IN IF ~In(new_node, self.expanded) /\ ~In(new_node, self.traversed)
       THEN [counted EXCEPT !.expanded = Append(@, new_node)]
       ELSE IF In(new_node, self.expanded)
            THEN LET old_node == get_node_by_stack(self.expanded, new_node.stack)
                 IN IF new_node.backwards_cost < old_node.backwards_cost
                    THEN [counted EXCEPT
                             !.expanded = Append(Remove(@, old_node), new_node)]
                    ELSE counted
            ELSE counted

\* Mutant of the A* merge: an equal-cost candidate replaces the frontier node.
AstarCandidateReplacesOnTie(self, new_node) ==
    LET counted == [self EXCEPT !.nodes_expanded = @ + 1]
    IN IF ~In(new_node, self.expanded) /\ ~In(new_node, self.traversed)
       THEN [counted EXCEPT !.expanded = Append(@, new_node)]
       ELSE IF In(new_node, self.expanded)
            THEN LET old_node == get_node_by_stack(self.expanded, new_node.stack)
                 IN IF new_node.total_cost <= old_node.total_cost
                    THEN [counted EXCEPT
                             !.expanded = Append(Remove(@, old_node), new_node)]
                    ELSE counted
            ELSE counted

\* Mutant of the A* merge: a replacement leaves the old node in the frontier.
AstarCandidateKeepsOld(self, new_node) ==
    LET counted == [self EXCEPT !.nodes_expanded = @ + 1]
    IN IF ~In(new_node, self.expanded) /\ ~In(new_node, self.traversed)
       THEN [counted EXCEPT !.expanded = Append(@, new_node)]
       ELSE IF In(new_node, self.expanded)
            THEN LET old_node == get_node_by_stack(self.expanded, new_node.stack)
                 IN IF new_node.total_cost < old_node.total_cost
                    THEN [counted EXCEPT !.expanded = Append(@, new_node)]
                    ELSE counted
            ELSE counted

\* Astar.start_search, lines 167 and 174-180: count the candidate, merge it
AstarCandidate(self, new_node) ==
    LET counted == [self EXCEPT !.nodes_expanded = @ + 1]
    IN IF ~In(new_node, self.expanded) /\ ~In(new_node, self.traversed)
       THEN [counted EXCEPT !.expanded = Append(@, new_node)]
       ELSE IF In(new_node, self.expanded)
            THEN LET old_node == get_node_by_stack(self.expanded, new_node.stack)
                 IN IF new_node.total_cost < old_node.total_cost
                    THEN [counted EXCEPT
                             !.expanded = Append(Remove(@, old_node), new_node)]
                    ELSE counted
            ELSE counted

\* Which branch of the merge the candidate took, read off its effect.
MergeOutcome(before, after, new_node) ==
    IF after.expanded = before.expanded
    THEN IF In(new_node, before.expanded) THEN "kept_frontier_node"
         ELSE "discarded_closed"
    ELSE IF In(new_node, before.expanded) THEN "replaced" ELSE "inserted"

-----------------------------------------------------------------------------
(* main(): validation, then Ucs(...).start_search(), then Astar(...).start_search() *)

\* FlippingSort.is_stack_valid
is_stack_valid(stack) ==
    /\ Len(stack) = Cardinality(Range(stack))
    /\ \A n \in 1..Len(stack) : n \in Range(stack)

\* What parse_user_input can hand to is_stack_valid, within the bound.
UserInputs == UNION {[1..n -> 1..MaxN] : n \in 1..MaxN}

\* What the search classes can be constructed with when called directly.
CoreInputs == UNION {[1..n -> 1..(MaxCoreLen + 1)] : n \in 1..MaxCoreLen}

InitWith(stack) ==
    /\ starting_stack = stack
    /\ pc = "ucs_start"
    /\ ucs = UcsNew(stack)
    /\ a_star = AstarNew(stack)
    /\ current_node = NoNode
    /\ i = 0
    /\ ucs_return = <<>>
    /\ astar_return = <<>>
    /\ last_merge = "none"

\* main(), lines 251-255 and 263: a validated stack, both objects constructed
Init == \E stack \in {s \in UserInputs : is_stack_valid(s)} : InitWith(stack)

\* Ucs(...) / Astar(...) constructed directly on any sequence
InitCore == \E stack \in CoreInputs : InitWith(stack)

\* Ucs.start_search, line 79
UcsStart ==
    /\ pc = "ucs_start"
    /\ ucs' = [ucs EXCEPT !.expanded = Append(@, ucs.root)]
    /\ pc' = "ucs_while"
    /\ UNCHANGED <<starting_stack, a_star, current_node, i, ucs_return,
                   astar_return, last_merge>>

\* Ucs.start_search, lines 83-94: extract, close, goal test, enter the for loop
UcsWhile ==
    /\ pc = "ucs_while"
    /\ IF ucs.expanded = <<>>
       THEN /\ pc' = "IndexError"
            /\ UNCHANGED <<ucs, current_node, i, ucs_return>>
       ELSE \E ordered \in {UcsSort(ucs.expanded)} :
            LET node == ordered[1]
            IN /\ ucs' = [ucs EXCEPT !.expanded = Remove(ordered, node),
                                     !.traversed = Append(@, node)]
               /\ IF node.stack = ucs.goal_stack
                  THEN /\ ucs_return' = <<node>>
                       /\ current_node' = NoNode
                       /\ i' = 0
                       /\ pc' = "astar_start"
                  ELSE /\ current_node' = node
                       /\ i' = 2
                       /\ pc' = IF 2 <= Len(node.stack) THEN "ucs_for" ELSE "ucs_while"
                       /\ UNCHANGED ucs_return
    /\ UNCHANGED <<starting_stack, a_star, astar_return, last_merge>>

\* Ucs.start_search, lines 94-109: one candidate
UcsFor ==
    /\ pc = "ucs_for"
    /\ \E new_node \in {UcsNewNode(current_node, i)} :
          \E after \in {UcsCandidate(ucs, new_node)} :
             /\ ucs' = after
             /\ last_merge' = MergeOutcome(ucs, after, new_node)
    /\ i' = i + 1
    /\ pc' = IF i + 1 <= Len(current_node.stack) THEN "ucs_for" ELSE "ucs_while"
    /\ UNCHANGED <<starting_stack, a_star, current_node, ucs_return, astar_return>>

\* Astar.start_search, lines 152-153
AstarStart ==
    /\ pc = "astar_start"
    /\ LET root == [a_star.root EXCEPT
                       !.heuristic_cost = calculate_heuristic_value(a_star.root.stack)]
       IN a_star' = [a_star EXCEPT !.root = root, !.expanded = Append(@, root)]
    /\ pc' = "astar_while"
    /\ last_merge' = "none"
    /\ UNCHANGED <<starting_stack, ucs, current_node, i, ucs_return, astar_return>>

\* Astar.start_search, lines 156-166: extract, close, goal test, enter the for loop
AstarWhile ==
    /\ pc = "astar_while"
    /\ IF a_star.expanded = <<>>
       THEN /\ pc' = "IndexError"
            /\ UNCHANGED <<a_star, current_node, i, astar_return>>
       ELSE \E ordered \in {AstarSort(a_star.expanded)} :
            LET node == ordered[1]
            IN /\ a_star' = [a_star EXCEPT !.expanded = Remove(ordered, node),
                                           !.traversed = Append(@, node)]
               /\ IF node.stack = a_star.goal_stack
                  THEN /\ astar_return' = <<node>>
                       /\ current_node' = NoNode
                       /\ i' = 0
                       /\ pc' = "done"
                  ELSE /\ current_node' = node
                       /\ i' = 2
                       /\ pc' = IF 2 <= Len(node.stack) THEN "astar_for"
                                ELSE "astar_while"
                       /\ UNCHANGED astar_return
    /\ UNCHANGED <<starting_stack, ucs, ucs_return, last_merge>>

\* Astar.start_search, lines 166-180: one candidate
AstarFor ==
    /\ pc = "astar_for"
    /\ \E new_node \in {AstarNewNode(current_node, i)} :
          \E after \in {AstarCandidate(a_star, new_node)} :
             /\ a_star' = after
             /\ last_merge' = MergeOutcome(a_star, after, new_node)
    /\ i' = i + 1
    /\ pc' = IF i + 1 <= Len(current_node.stack) THEN "astar_for" ELSE "astar_while"
    /\ UNCHANGED <<starting_stack, ucs, current_node, ucs_return, astar_return>>

Next == UcsStart \/ UcsWhile \/ UcsFor \/ AstarStart \/ AstarWhile \/ AstarFor

\* main() on a validated stack
Spec == Init /\ [][Next]_vars

\* The search classes on any sequence
SpecCore == InitCore /\ [][Next]_vars

\* main() keeps executing: a sequential program takes its next step
FairSpec == Spec /\ WF_vars(Next)

-----------------------------------------------------------------------------
(* Reference values the claims compare the searches with *)

\* Breadth-first layers over the flip graph, from the first layer until the
\* goal shows up; -1 when the goal is out of reach.
RECURSIVE BfsDepth(_, _, _, _)
BfsDepth(layer, seen, goal, d) ==
    IF goal \in layer THEN d
    ELSE LET next == {flip(s, k) : s \in layer, k \in 2..Len(goal)} \ seen
         IN IF next = {} THEN 0 - 1
            ELSE BfsDepth(next, seen \cup next, goal, d + 1)

\* Fewest prefix flips (sizes 2..N) that sort the stack.
MinFlips(stack) == BfsDepth({stack}, {stack}, sorted(stack), 0)

\* 1..N in ascending order
Ascending(n) == [k \in 1..n |-> k]

UcsReturned == Len(ucs_return) = 1
AstarReturned == Len(astar_return) = 1

\* path[k+1] is path[k] after one flip of some size in 2..N
OneFlipApart(s, t) == \E k \in 2..Len(s) : t = flip(s, k)

ValidSolution(node) ==
    /\ Len(node.path) >= 1
    /\ node.path[1] = starting_stack
    /\ node.path[Len(node.path)] = Ascending(Len(starting_stack))
    /\ node.stack = node.path[Len(node.path)]
    /\ \A k \in 1..(Len(node.path) - 1) : OneFlipApart(node.path[k], node.path[k + 1])
    /\ Len(node.path) - 1 = node.backwards_cost

-----------------------------------------------------------------------------
(* Claims *)

\* C1: the cost of the node Ucs.start_search returns is the fewest prefix
\* flips (sizes 2..N) that sort the starting stack, its breadth-first distance
\* to the sorted stack.
C1_UcsCostIsMinimal ==
    UcsReturned => ucs_return[1].backwards_cost = MinFlips(starting_stack)

\* C1 witness: UCS has returned for a stack that needs at least three flips.
C1_Witness ==
    /\ UcsReturned
    /\ ucs_return[1].backwards_cost >= 3
    /\ Len(ucs.traversed) > 3

\* C2: the node Astar.start_search returns has the same backwards_cost as the
\* node Ucs.start_search returns for the same starting stack.
C2_AstarCostEqualsUcsCost ==
    (UcsReturned /\ AstarReturned) =>
        astar_return[1].backwards_cost = ucs_return[1].backwards_cost

\* C2 witness: both searches have returned, with a cost of at least three, and
\* A* closed fewer nodes than UCS (the two searches did not run alike).
C2_Witness ==
    /\ UcsReturned /\ AstarReturned
    /\ astar_return[1].backwards_cost >= 3
    /\ Len(a_star.traversed) < Len(ucs.traversed)

\* C3: for UCS and for A*, the returned node's path starts at the starting
\* stack, ends at 1..N ascending, moves by one flip of size 2..N at a time, and
\* has one more element than the returned cost.
C3_ReturnedPathIsValid ==
    /\ UcsReturned => ValidSolution(ucs_return[1])
    /\ AstarReturned => ValidSolution(astar_return[1])

\* C3 witness: both searches returned paths of at least three flips.
C3_Witness ==
    /\ UcsReturned /\ AstarReturned
    /\ Len(ucs_return[1].path) >= 4
    /\ Len(astar_return[1].path) >= 4

\* C4: with the code's tie-breaking, A* never counts more expanded nodes than
\* UCS does on the same starting stack.
C4_AstarExpandsNoMore ==
    pc = "done" => a_star.nodes_expanded <= ucs.nodes_expanded

\* C4 witness: both searches are over and A* counted strictly fewer nodes.
C4_Witness ==
    /\ pc = "done"
    /\ a_star.nodes_expanded < ucs.nodes_expanded
    /\ a_star.nodes_expanded > 1

\* C5: under FairSpec both searches terminate: UCS, then A*, extracts a node
\* whose stack is the goal stack and returns it.
C5_BothSearchesTerminate ==
    /\ <>(UcsReturned /\ ucs_return[1].stack = ucs.goal_stack)
    /\ <>(AstarReturned /\ astar_return[1].stack = a_star.goal_stack /\ pc = "done")

\* C5 witness: both searches have returned after A* went through its loop at
\* least four times.
C5_Witness ==
    /\ pc = "done"
    /\ UcsReturned /\ AstarReturned
    /\ Len(a_star.traversed) >= 4

\* C6: a search built on a sequence that is not a permutation of 1..N fails
\* fast: it never returns a result node.
C6_NonPermutationIsRejected ==
    ~is_stack_valid(starting_stack) => (~UcsReturned /\ ~AstarReturned)

IsSortedInput == starting_stack = Ascending(Len(starting_stack))

ReturnsRootAtOnce(self, returned) ==
    /\ returned[1].backwards_cost = 0
    /\ returned[1].path = <<starting_stack>>
    /\ self.nodes_expanded = 1
    /\ Len(self.traversed) = 1
    /\ self.expanded = <<>>

\* C7: for N = 1 or a stack already in ascending order, each search returns
\* on its first extraction with cost 0, the one-element path and
\* nodes_expanded = 1, and never generates a successor; for <<2, 1>> the
\* returned cost is 1.
C7_SortedInputCostsNothing ==
    /\ (Len(starting_stack) = 1 \/ IsSortedInput) =>
          /\ pc \notin {"ucs_for", "astar_for"}
          /\ ucs.nodes_expanded = 1 /\ a_star.nodes_expanded = 1
          /\ UcsReturned => ReturnsRootAtOnce(ucs, ucs_return)
          /\ AstarReturned => ReturnsRootAtOnce(a_star, astar_return)
    /\ starting_stack = <<2, 1>> =>
          /\ UcsReturned => ucs_return[1].backwards_cost = 1
          /\ AstarReturned => astar_return[1].backwards_cost = 1

\* C7 witness: both searches are over for a sorted stack of more than one pancake.
C7_Witness ==
    /\ pc = "done"
    /\ IsSortedInput
    /\ Len(starting_stack) >= 2
    /\ UcsReturned /\ AstarReturned

\* Nodes of the closed list whose stack is not the goal stack.
NonGoalClosed(self) ==
    Cardinality({k \in 1..Len(self.traversed) :
                    self.traversed[k].stack # self.goal_stack})

CountedAll(self) ==
    self.nodes_expanded = 1 + (Len(starting_stack) - 1) * NonGoalClosed(self)

\* In the middle of an expansion: the finished expansions, plus the
\* candidates of sizes 2..i-1 of the current one.
CountedSoFar(self) ==
    self.nodes_expanded =
        1 + (Len(starting_stack) - 1) * (NonGoalClosed(self) - 1) + (i - 2)

\* C9: nodes_expanded counts the root and every candidate generated, whatever
\* the merge does with it: between expansions and at return it is
\* 1 + (N-1) * (non-goal nodes closed), for UCS and for A*.
C9_CountsEveryCandidate ==
    /\ IF pc = "ucs_for" THEN CountedSoFar(ucs) ELSE CountedAll(ucs)
    /\ IF pc = "astar_for" THEN CountedSoFar(a_star) ELSE CountedAll(a_star)

\* C9 witness: both searches are over and each discarded candidates: more were
\* counted than nodes ever entered the frontier.
C9_Witness ==
    /\ pc = "done"
    /\ ucs.nodes_expanded > Len(ucs.traversed) + Len(ucs.expanded)
    /\ a_star.nodes_expanded > Len(a_star.traversed) + Len(a_star.expanded)
    /\ NonGoalClosed(a_star) >= 2

\* The candidate the next step of the for loop generates.
NextUcsCandidate == UcsNewNode(current_node, i)
NextAstarCandidate == AstarNewNode(current_node, i)

UcsFrontierHit ==
    pc = "ucs_for" /\ In(NextUcsCandidate, ucs.expanded)
AstarFrontierHit ==
    pc = "astar_for" /\ In(NextAstarCandidate, a_star.expanded)

UcsOld == get_node_by_stack(ucs.expanded, NextUcsCandidate.stack)
AstarOld == get_node_by_stack(a_star.expanded, NextAstarCandidate.stack)

\* C10 as stated: on a frontier hit the candidate replaces the existing node
\* whenever the existing node's cost (total cost for A*) is greater than or
\* equal to the candidate's, the equal case included; it is discarded only
\* when the existing node is strictly cheaper.
C10_ReplacesOnGreaterOrEqual ==
    [][/\ UcsFrontierHit =>
            IF UcsOld.backwards_cost >= NextUcsCandidate.backwards_cost
            THEN get_node_by_stack(ucs'.expanded, NextUcsCandidate.stack)
                    = NextUcsCandidate
            ELSE ucs'.expanded = ucs.expanded
       /\ AstarFrontierHit =>
            IF AstarOld.total_cost >= NextAstarCandidate.total_cost
            THEN get_node_by_stack(a_star'.expanded, NextAstarCandidate.stack)
                    = NextAstarCandidate
            ELSE a_star'.expanded = a_star.expanded]_vars

\* C10 amended: on a frontier hit the candidate replaces the existing node
\* only when the existing node's cost (total cost for A*) is strictly greater
\* than the candidate's: the old node leaves the frontier and the candidate is
\* appended; on equal cost, as when the existing node is cheaper, the
\* candidate is discarded and the frontier keeps the existing node.
C10_ReplacesOnlyOnStrictlyGreater ==
    [][/\ UcsFrontierHit =>
            IF UcsOld.backwards_cost > NextUcsCandidate.backwards_cost
            THEN /\ get_node_by_stack(ucs'.expanded, NextUcsCandidate.stack)
                       = NextUcsCandidate
                 /\ ucs'.expanded[Len(ucs'.expanded)] = NextUcsCandidate
                 /\ Len(ucs'.expanded) = Len(ucs.expanded)
            ELSE /\ ucs'.expanded = ucs.expanded
                 /\ get_node_by_stack(ucs'.expanded, NextUcsCandidate.stack) = UcsOld
       /\ AstarFrontierHit =>
            IF AstarOld.total_cost > NextAstarCandidate.total_cost
            THEN /\ get_node_by_stack(a_star'.expanded, NextAstarCandidate.stack)
                       = NextAstarCandidate
                 /\ a_star'.expanded[Len(a_star'.expanded)] = NextAstarCandidate
                 /\ Len(a_star'.expanded) = Len(a_star.expanded)
            ELSE /\ a_star'.expanded = a_star.expanded
                 /\ get_node_by_stack(a_star'.expanded, NextAstarCandidate.stack)
                       = AstarOld]_vars

\* C10 witness: the last A* candidate replaced a frontier node: it is now the
\* last node of the frontier, with a path through current_node.
C10_Witness ==
    /\ pc \in {"astar_for", "astar_while"}
    /\ last_merge = "replaced"
    /\ a_star.expanded # <<>>
    /\ a_star.expanded[Len(a_star.expanded)] = AstarNewNode(current_node, i - 1)

\* The stacks of the nodes of a list, in list order.
Stacks(list) == [k \in 1..Len(list) |-> list[k].stack]

\* No two nodes of the list have the same stack.
DistinctStacks(list) == Cardinality(Range(Stacks(list))) = Len(list)

\* C11: in every reachable state of either search the frontier
\* (self.expanded) holds at most one node per stack.
C11_FrontierHasOneNodePerStack ==
    /\ DistinctStacks(ucs.expanded)
    /\ DistinctStacks(a_star.expanded)

\* C11 witness: A* has just replaced a frontier node and the frontier holds
\* at least three nodes.
C11_Witness ==
    /\ pc \in {"astar_for", "astar_while"}
    /\ last_merge = "replaced"
    /\ Len(a_star.expanded) >= 3

\* No stack is both in the frontier and in the closed list.
FrontierApartFromClosed(self) ==
    Range(Stacks(self.expanded)) \cap Range(Stacks(self.traversed)) = {}

ClosedNeverReopened(self) ==
    /\ DistinctStacks(self.traversed)
    /\ FrontierApartFromClosed(self)

\* C12: closed states are never re-opened or re-expanded: no stack occurs
\* twice in the closed list (self.traversed), no stack is in both the frontier
\* and the closed list, and a candidate whose stack is already closed leaves
\* the frontier and the closed list as they are.
C12_ClosedStatesStayClosed ==
    /\ [](ClosedNeverReopened(ucs) /\ ClosedNeverReopened(a_star))
    /\ [][/\ (pc = "ucs_for" /\ In(NextUcsCandidate, ucs.traversed)) =>
                (ucs'.expanded = ucs.expanded /\ ucs'.traversed = ucs.traversed)
          /\ (pc = "astar_for" /\ In(NextAstarCandidate, a_star.traversed)) =>
                (a_star'.expanded = a_star.expanded
                   /\ a_star'.traversed = a_star.traversed)]_vars

\* C12 witness: A* has just discarded a candidate whose stack was already in
\* its closed list.
C12_Witness ==
    /\ pc \in {"astar_for", "astar_while"}
    /\ last_merge = "discarded_closed"
    /\ In(AstarNewNode(current_node, i - 1), a_star.traversed)
    /\ Len(a_star.traversed) >= 2

\* Fewest prefix flips (sizes 2..N) that turn one stack into the other.
FlipDistance(from, to) == BfsDepth({from}, {from}, to, 0)

\* The node closed last (the closed list only grows at its end, so every
\* node is the last one in the state its extraction leads to).
LastClosedAtMinimalCost(self) ==
    self.traversed # <<>> =>
        LET node == self.traversed[Len(self.traversed)]
        IN node.backwards_cost = FlipDistance(starting_stack, node.stack)

\* C13: whenever a node is moved from the frontier to the closed list, in UCS
\* and in A*, its backwards_cost is the fewest flips from the starting stack
\* to its stack (its breadth-first distance from the root).
C13_ClosedNodesHaveMinimalCost ==
    /\ LastClosedAtMinimalCost(ucs)
    /\ LastClosedAtMinimalCost(a_star)

\* C13 witness: A* has closed at least four nodes, the last one two or more
\* flips away from the root, and has discarded a candidate for a closed stack.
C13_Witness ==
    /\ Len(a_star.traversed) >= 4
    /\ a_star.traversed[Len(a_star.traversed)].backwards_cost >= 2
    /\ last_merge = "discarded_closed"

\* Every A* node of the list has total_cost = backwards_cost + heuristic of
\* its stack.
TotalCostIsSum(list) ==
    \A k \in 1..Len(list) :
        list[k].total_cost
            = list[k].backwards_cost + calculate_heuristic_value(list[k].stack)

\* C14: the node extracted at each iteration has the lowest priority in the
\* frontier at that moment: lowest backwards_cost for UCS, lowest total_cost
\* for A*; and every A* node, the root included, has
\* total_cost = backwards_cost + calculate_heuristic_value(stack).
C14_ExtractsLowestPriority ==
    /\ [](/\ TotalCostIsSum(<<a_star.root>>)
          /\ TotalCostIsSum(a_star.expanded)
          /\ TotalCostIsSum(a_star.traversed))
    /\ [][/\ ucs'.traversed # ucs.traversed =>
                \A k \in 1..Len(ucs.expanded) :
                    ucs'.traversed[Len(ucs'.traversed)].backwards_cost
                        <= ucs.expanded[k].backwards_cost
          /\ a_star'.traversed # a_star.traversed =>
                \A k \in 1..Len(a_star.expanded) :
                    a_star'.traversed[Len(a_star'.traversed)].total_cost
                        <= a_star.expanded[k].total_cost]_vars

\* C14 witness: A* has just extracted a node while the frontier still holds
\* nodes of a higher and of an equal total_cost.
C14_Witness ==
    /\ pc = "astar_for" /\ i = 2
    /\ \E k \in 1..Len(a_star.expanded) :
          a_star.expanded[k].total_cost > current_node.total_cost
    /\ \E k \in 1..Len(a_star.expanded) :
          a_star.expanded[k].total_cost = current_node.total_cost

Abs(x) == IF x < 0 THEN 0 - x ELSE x

\* Adjacent pairs of the stack, the last pair included, whose two pancakes
\* are not consecutive integers in either order.
GapCount(stack) ==
    Cardinality({k \in 1..(Len(stack) - 1) : Abs(stack[k] - stack[k + 1]) # 1})

HeuristicIsGapCount(list) ==
    \A k \in 1..Len(list) : list[k].heuristic_cost = GapCount(list[k].stack)

\* C15: calculate_heuristic_value(s) is the number of adjacent pairs
\* (s[i], s[i+1]) with |s[i] - s[i+1]| # 1 over all N-1 adjacent pairs, the
\* last one included: it is what every A* node stores as heuristic_cost, and
\* it is 0 for [1,2,3,4] and [4,3,2,1] and 2 for [1,3,2,4].
C15_HeuristicCountsGaps ==
    /\ HeuristicIsGapCount(<<a_star.root>>)
    /\ HeuristicIsGapCount(a_star.expanded)
    /\ HeuristicIsGapCount(a_star.traversed)
    /\ \A k \in 1..Len(a_star.expanded) :
          LET node == a_star.expanded[k]
          IN /\ node.stack \in {<<1, 2, 3, 4>>, <<4, 3, 2, 1>>} =>
                   node.heuristic_cost = 0
             /\ node.stack = <<1, 3, 2, 4>> => node.heuristic_cost = 2
    /\ starting_stack \in {<<1, 2, 3, 4>>, <<4, 3, 2, 1>>} =>
          a_star.root.heuristic_cost = 0
    /\ starting_stack = <<1, 3, 2, 4>> => a_star.root.heuristic_cost = 2

\* C15 witness: A* started from [1,3,2,4], whose last pair (2,4) is one of
\* its two gaps, has closed the root with heuristic_cost 2 and holds
\* candidates with their own heuristic values in the frontier.
C15_Witness ==
    /\ starting_stack = <<1, 3, 2, 4>>
    /\ a_star.traversed # <<>>
    /\ a_star.traversed[1].stack = <<1, 3, 2, 4>>
    /\ a_star.traversed[1].heuristic_cost = 2
    /\ Len(a_star.expanded) >= 2

\* The heuristic moves by at most 1 along every flip of the stack.
FlipsChangeHeuristicByAtMostOne(stack, heuristic_value) ==
    \A k \in 2..Len(stack) :
        Abs(calculate_heuristic_value(flip(stack, k)) - heuristic_value) <= 1

\* C16: the heuristic is consistent with unit edge costs: for every
\* permutation s of 1..N (every starting stack, and every stack A* closes) and
\* every k in 2..N, calculate_heuristic_value(flip(s, k)) differs from
\* calculate_heuristic_value(s) by at most 1; the heuristic of the goal stack
\* is 0.
C16_HeuristicIsConsistent ==
    /\ FlipsChangeHeuristicByAtMostOne(starting_stack, a_star.root.heuristic_cost)
    /\ a_star.traversed # <<>> =>
          LET node == a_star.traversed[Len(a_star.traversed)]
          IN FlipsChangeHeuristicByAtMostOne(node.stack, node.heuristic_cost)
    /\ calculate_heuristic_value(a_star.goal_stack) = 0
    /\ AstarReturned => astar_return[1].heuristic_cost = 0

\* C16 witness: A* is expanding a node of a four-pancake stack; one of its
\* flips raises the heuristic by 1 and another lowers it by 1.
C16_Witness ==
    /\ pc = "astar_for"
    /\ Len(current_node.stack) = 4
    /\ \E k \in 2..4 :
          calculate_heuristic_value(flip(current_node.stack, k))
              = current_node.heuristic_cost + 1
    /\ \E k \in 2..4 :
          calculate_heuristic_value(flip(current_node.stack, k))
              = current_node.heuristic_cost - 1

\* C17: the heuristic is admissible: for every permutation s of 1..N within
\* the bound, calculate_heuristic_value(s), as stored in the A* root built on
\* s, is at most the fewest flips (sizes 2..N) that sort s (compared before
\* each search starts and when both are over).
C17_HeuristicIsAdmissible ==
    /\ pc \in {"ucs_start", "astar_start", "done"} =>
          a_star.root.heuristic_cost <= MinFlips(starting_stack)
    /\ AstarReturned => astar_return[1].heuristic_cost <= 0

\* C17 witness: A* is about to start on a stack with three gaps, which needs
\* more flips than it has gaps.
C17_Witness ==
    /\ pc = "astar_start"
    /\ a_star.root.heuristic_cost = 3
    /\ MinFlips(starting_stack) > 3

\* t is s with its first k elements in reverse order and the rest in place.
PrefixReversed(s, t, k) ==
    /\ Len(t) = Len(s)
    /\ \A j \in 1..k : t[j] = s[k + 1 - j]
    /\ \A j \in (k + 1)..Len(s) : t[j] = s[j]

\* The stack is a permutation of 1..N, N the size of the starting stack.
IsPermutation(stack) ==
    /\ Len(stack) = Len(starting_stack)
    /\ Range(stack) = 1..Len(starting_stack)

AllPermutations(list) == \A k \in 1..Len(list) : IsPermutation(list[k].stack)

\* In the for loop: the flip size is in 2..N and the candidate is the
\* current stack with that prefix reversed.
CandidateIsPrefixReversal(candidate) ==
    /\ i \in 2..Len(starting_stack)
    /\ PrefixReversed(current_node.stack, candidate.stack, i)
    /\ IsPermutation(candidate.stack)

\* C18: flip(s, k), 2 <= k <= N, reverses the first k elements of s and leaves
\* the others in place, so the result is again a permutation of 1..N; an
\* expansion generates one candidate for each k = 2, 3, .., N in turn, never
\* k = 1; every stack in a frontier or closed list is a permutation of 1..N.
C18_FlipReversesPrefix ==
    /\ [](/\ pc = "ucs_for" => CandidateIsPrefixReversal(NextUcsCandidate)
          /\ pc = "astar_for" => CandidateIsPrefixReversal(NextAstarCandidate)
          /\ AllPermutations(ucs.expanded) /\ AllPermutations(ucs.traversed)
          /\ AllPermutations(a_star.expanded) /\ AllPermutations(a_star.traversed))
    /\ [][/\ (pc' \in {"ucs_for", "astar_for"} /\ pc' # pc) => i' = 2
          /\ pc \in {"ucs_for", "astar_for"} =>
                /\ i' = i + 1
                /\ current_node' = current_node
                /\ pc' = IF i < Len(starting_stack) THEN pc
                         ELSE IF pc = "ucs_for" THEN "ucs_while" ELSE "astar_while"]_vars

\* C18 witness: the for loop of A* is at its last flip size, k = N = 4, and
\* the candidate of size 3 has just been inserted at the end of the frontier.
C18_Witness ==
    /\ pc = "astar_for"
    /\ i = 4 /\ Len(starting_stack) = 4
    /\ last_merge = "inserted"
    /\ PrefixReversed(current_node.stack,
                      a_star.expanded[Len(a_star.expanded)].stack, 3)

\* C19: at every extraction step of either search the frontier is not empty:
\* get_lowest_cost_node never indexes an empty list.
C19_FrontierNeverRunsDry ==
    /\ pc = "ucs_while" => ucs.expanded # <<>>
    /\ pc = "astar_while" => a_star.expanded # <<>>
    /\ pc # "IndexError"

\* C19 witness: UCS is about to extract from a frontier of a single node,
\* after closing at least two nodes.
C19_Witness ==
    /\ pc = "ucs_while"
    /\ Len(ucs.expanded) = 1
    /\ Len(ucs.traversed) >= 2

NonDecreasing(seq) == \A k \in 1..(Len(seq) - 1) : seq[k] <= seq[k + 1]

\* C20: over a run the priorities of the successively extracted nodes never
\* decrease: the backwards_cost of the nodes UCS closes, and the total_cost
\* of the nodes A* closes, are non-decreasing in closing order.
C20_ExtractedPrioritiesNeverDecrease ==
    /\ NonDecreasing([k \in 1..Len(ucs.traversed) |->
                         ucs.traversed[k].backwards_cost])
    /\ NonDecreasing([k \in 1..Len(a_star.traversed) |->
                         a_star.traversed[k].total_cost])

\* C20 witness: A* has closed a node of a higher total_cost than the root's
\* and one whose total_cost equals its predecessor's.
C20_Witness ==
    /\ Len(a_star.traversed) >= 3
    /\ a_star.traversed[Len(a_star.traversed)].total_cost
          > a_star.traversed[1].total_cost
    /\ \E k \in 1..(Len(a_star.traversed) - 1) :
          a_star.traversed[k].total_cost = a_star.traversed[k + 1].total_cost

====
